---- MODULE Spec2Model ----
(***************************************************************************)
(* Model of CollaborationHub (backend/app/collaboration_system.py) and of  *)
(* the websocket endpoint that drives it (backend/app/main.py).            *)
(*                                                                         *)
(* The hub runs on one asyncio event loop.  A coroutine runs without       *)
(* interruption until it awaits network I/O (websocket.send_json,          *)
(* websocket.receive_json); awaiting save_deal / get_deal / log_activity   *)
(* never suspends, because those coroutines contain no I/O await.  Every   *)
(* action below is therefore the code of one coroutine from one suspension *)
(* point to the next.                                                      *)
(***************************************************************************)
EXTENDS Integers, FiniteSets, Sequences, TLC

\* ---------------------------------------------------------------- bounds
MaxVotes == 2        \* vote_cast messages handled in one behaviour
MaxEphemeral == 1    \* cursor_move / selection_change / typing messages
MaxDrops == 1        \* client connections that drop
MaxClock == 9        \* days that pass after the hub is constructed
MaxCommittee == 5    \* keys of a votes dictionary summarised on its own

\* ------------------------------------------------------------ identifiers
None == "none"
Users == {"u1", "u2"}
Workspaces == {"w1", "w2"}
Deals == {"d1"}
Conns == {"c1", "c2", "c3"}
REST == "rest"                 \* the coroutine of one REST request (create_deal)
Tasks == Conns \cup {REST}

\* class DealStatus
DealStatus == {"sourced", "screening", "due_diligence", "partner_review",
               "ic_review", "negotiation", "closed_won", "closed_lost",
               "monitoring"}

\* class VoteType
VoteType == {"strong_yes", "yes", "neutral", "no", "strong_no", "abstain"}

\* message types of the three handlers that only re-broadcast
EphemeralTypes == {"cursor_update", "selection_update", "typing_indicator"}

VARIABLES
    workspace_cache,      \* workspace id -> [members]           (partial)
    deal_cache,           \* deal id -> Deal record              (partial)
    active_connections,   \* workspace id -> set of websockets
    user_connections,     \* user id -> websocket or None
    pc,                   \* position of every coroutine
    cuser, cws,           \* user_id / workspace_id locals of websocket_endpoint
    alive,                \* TRUE while a send on the websocket succeeds
    bcast,                \* the broadcast_to_workspace frame of every coroutine
    notif,                \* the send_notification calls a handler still makes
    notification_queue,   \* user id -> the redis list notifications:<user id>
    vote_message,         \* the vote_cast message dispatched last
    votesCast, ephemeralSent, drops,  \* counters of the bounds
    now,                  \* datetime.utcnow(), in days
    share_token,          \* the token generate_share_token returned last
    presented,            \* the token handed to verify_share_token last
    verify_result,        \* what verify_share_token returned or raised
    ballot,               \* a votes dictionary given to calculate_vote_summary
    ballot_summary,       \* the dictionary calculate_vote_summary returned
    dd_checklist,         \* the deals create_dd_checklist built a list for
    dd_items,             \* the redis hash dd_items: item id -> item
    dd_message            \* the dd_item_update message dispatched last

vars == <<workspace_cache, deal_cache, active_connections, user_connections,
          pc, cuser, cws, alive, bcast, notif, notification_queue,
          vote_message, votesCast, ephemeralSent, drops,
          now, share_token, presented, verify_result, ballot, ballot_summary,
          dd_checklist, dd_items, dd_message>>

registry == <<active_connections, user_connections>>
counters == <<votesCast, ephemeralSent, drops>>
msgvars == <<notif, notification_queue>>
tokenvars == <<now, share_token, presented, verify_result>>
tallyvars == <<ballot, ballot_summary>>
ddvars == <<dd_checklist, dd_items, dd_message>>
hubvars == <<workspace_cache, deal_cache, active_connections, user_connections,
             pc, cuser, cws, alive, bcast, notif, notification_queue,
             vote_message, votesCast, ephemeralSent, drops>>

\* the redis client the hub is constructed with: main.py builds the hub as
\* CollaborationHub(), so self.redis_client is None
redis_client == None

\* --------------------------------------------------------------- helpers
\* uuid4 ids and websocket objects are fresh; the model hands them out in
\* a fixed order
ConnOrder == <<"c1", "c2", "c3">>
WorkspaceOrder == <<"w1", "w2">>
DealOrder == <<"d1">>

HasFree(order, used) == \E i \in 1..Len(order) : order[i] \notin used

FirstFree(order, used) ==
    order[CHOOSE i \in 1..Len(order) :
              /\ order[i] \notin used
              /\ \A j \in 1..(i - 1) : order[j] \in used]

\* get_user_id_from_connection: the key of user_connections whose value is
\* the connection, None when there is none
get_user_id_from_connection(uc, connection) ==
    IF \E u \in Users : uc[u] = connection
    THEN CHOOSE u \in Users : uc[u] = connection
    ELSE None

\* ------------------------------------------------- broadcast_to_workspace
\* One frame of broadcast_to_workspace.  snapshot / attempted / failed are
\* the observations the properties are stated on; visited is the position
\* of the set iterator; cur is the connection whose send_json is awaited.
IdleFrame ==
    [ws |-> None, type |-> None, user |-> None, deal |-> None,
     exclude |-> None, snapshot |-> {}, visited |-> {}, attempted |-> {},
     failed |-> {}, cur |-> None, status |-> "idle"]

NewFrame(ws, type, user, deal, exclude, act) ==
    [ws |-> ws, type |-> type, user |-> user, deal |-> deal,
     exclude |-> exclude, snapshot |-> act[ws], visited |-> {},
     attempted |-> {}, failed |-> {}, cur |-> None, status |-> "sending"]

\* the test `if exclude_user: ... if user_id == exclude_user: continue`
Skipped(b, uc, connection) ==
    /\ b.exclude # None
    /\ get_user_id_from_connection(uc, connection) = b.exclude

\* `for connection in connections:` run up to the next `await send_json`.
\* The set iterator raises RuntimeError ("Set changed size during
\* iteration") whenever the size of the set differs from its size when the
\* loop began, also on the call that would end the loop.  While the size is
\* unchanged it yields the elements not yet visited, in hash order, which
\* the model leaves open; an element added during a suspension (together
\* with a removal, so that the size is unchanged) may or may not be
\* yielded.  Result: the set of frames the loop can be in when it next
\* suspends, ends ("done") or raises ("error").
Advance(b, act, uc) ==
    LET connections == act[b.ws]
        cand == connections \ b.visited
        must == cand \cap b.snapshot
        skip == {c \in cand : Skipped(b, uc, c)}
    IN  IF Cardinality(connections) # Cardinality(b.snapshot)
        THEN {[b EXCEPT !.status = "error", !.cur = None]}
        ELSE {[b EXCEPT !.status = "sending", !.cur = c,
                        !.visited = b.visited \cup S \cup {c},
                        !.attempted = b.attempted \cup {c}]
                 : c \in cand \ skip, S \in SUBSET skip}
             \cup
             (IF must \subseteq skip
              THEN {[b EXCEPT !.status = "done", !.cur = None,
                              !.visited = b.visited \cup must]}
              ELSE {})

\* broadcast_to_workspace from its first line to its first suspension
broadcast_to_workspace(ws, type, user, deal, exclude, act, uc) ==
    Advance(NewFrame(ws, type, user, deal, exclude, act), act, uc)

\* the awaited send_json returns or raises; `connections.discard` on raise
SendResult(b) ==
    IF alive[b.cur] THEN b ELSE [b EXCEPT !.failed = b.failed \cup {b.cur}]

ActiveAfterSend(b) ==
    IF alive[b.cur] THEN active_connections
    ELSE [active_connections EXCEPT ![b.ws] = @ \ {b.cur}]

\* the frames broadcast_to_workspace can be in after the awaited send
Resume(t) ==
    Advance(SendResult(bcast[t]), ActiveAfterSend(bcast[t]), user_connections)

\* the frame of a broadcast that returned or raised is popped
Frame(b) == IF b.status = "sending" THEN b ELSE IdleFrame

Suspended(t, type) ==
    /\ pc[t] = "broadcast"
    /\ bcast[t].status = "sending"
    /\ bcast[t].type = type

\* the notifications a handler has still to send: the users not yet
\* notified, the event, and the connection whose send_json is awaited
IdleNotif == [pending |-> << >>, event |-> None, cur |-> None]

\* no vote_cast message has been dispatched
NoVote == [connection |-> None, user_id |-> None, deal_id |-> None,
           vote |-> None]

\* ------------------------------------------------------------------ Init
\* no token, and a string that is not three dot-separated segments
NoToken == [text |-> ""]
Malformed == [text |-> "not-a-jwt"]

\* no share token has been generated or verified
NoTokens ==
    /\ now = 0
    /\ share_token = [deal_id |-> None, permissions |-> << >>,
                      issued_at |-> 0, token |-> NoToken]
    /\ presented = NoToken
    /\ verify_result = [at |-> 0, outcome |-> [raised |-> FALSE]]

\* calculate_vote_summary has not been called on the ballot
NoSummary == [status |-> "not_called"]

\* calculate_vote_summary has not been called on its own
NoBallot ==
    /\ ballot = << >>
    /\ ballot_summary = NoSummary

\* no dd_item_update message has been dispatched
NoDDMessage == [connection |-> None, user_id |-> None, item_id |-> << >>,
                status |-> None]

\* no due diligence checklist exists and no dd_item_update has arrived
NoChecklist ==
    /\ dd_checklist = {}
    /\ dd_items = << >>
    /\ dd_message = NoDDMessage

\* CollaborationHub.__init__
HubInit ==
    /\ workspace_cache = << >>
    /\ deal_cache = << >>
    /\ active_connections = [w \in Workspaces |-> {}]
    /\ user_connections = [u \in Users |-> None]
    /\ pc = [t \in Tasks |-> IF t = REST THEN "idle" ELSE "new"]
    /\ cuser = [c \in Conns |-> None]
    /\ cws = [c \in Conns |-> None]
    /\ alive = [c \in Conns |-> FALSE]
    /\ bcast = [t \in Tasks |-> IdleFrame]
    /\ notif = [c \in Conns |-> IdleNotif]
    /\ notification_queue = [u \in Users |-> << >>]
    /\ vote_message = NoVote
    /\ votesCast = 0
    /\ ephemeralSent = 0
    /\ drops = 0

Init == HubInit /\ NoTokens /\ NoBallot /\ NoChecklist

\* ------------------------------------------------- websocket_endpoint
\* An unhandled exception ends the endpoint coroutine; the server then
\* closes the websocket, so later sends on it raise.  Nothing unregisters
\* the connection.
EndpointCrash(c) ==
    /\ pc' = [pc EXCEPT ![c] = "crashed"]
    /\ alive' = [alive EXCEPT ![c] = FALSE]

\* connect_websocket: accept, register, announce user_joined
connect_websocket(c, u, w) ==
    /\ pc[c] = "new"
    /\ c = FirstFree(ConnOrder, {x \in Conns : pc[x] # "new"})
    /\ LET act1 == [active_connections EXCEPT ![w] = @ \cup {c}]
           uc1 == [user_connections EXCEPT ![u] = c]
       IN  /\ active_connections' = act1
           /\ user_connections' = uc1
           /\ \E b \in broadcast_to_workspace(w, "user_joined", u, None, u,
                                              act1, uc1) :
                 /\ bcast' = [bcast EXCEPT ![c] = Frame(b)]
                 /\ pc' = [pc EXCEPT ![c] = IF b.status = "sending"
                                             THEN "broadcast"
                                             ELSE "state_send"]
    /\ cuser' = [cuser EXCEPT ![c] = u]
    /\ cws' = [cws EXCEPT ![c] = w]
    /\ alive' = [alive EXCEPT ![c] = TRUE]
    /\ UNCHANGED <<workspace_cache, deal_cache, counters>>
    /\ UNCHANGED msgvars
    /\ UNCHANGED vote_message
    /\ UNCHANGED <<tokenvars, tallyvars, ddvars>>

\* connect_websocket resumed after a send of the user_joined broadcast
connect_websocket_resume(c) ==
    /\ Suspended(c, "user_joined")
    /\ \E b \in Resume(c) :
          /\ bcast' = [bcast EXCEPT ![c] = Frame(b)]
          /\ IF b.status = "error"
             THEN EndpointCrash(c)
             ELSE /\ pc' = [pc EXCEPT ![c] = IF b.status = "sending"
                                              THEN "broadcast"
                                              ELSE "state_send"]
                  /\ UNCHANGED alive
    /\ active_connections' = ActiveAfterSend(bcast[c])
    /\ UNCHANGED <<workspace_cache, deal_cache, user_connections, cuser, cws,
                   counters>>
    /\ UNCHANGED msgvars
    /\ UNCHANGED vote_message
    /\ UNCHANGED <<tokenvars, tallyvars, ddvars>>

\* disconnect_websocket from its first line to its first suspension
DisconnectEffect(c) ==
    LET act1 == [active_connections EXCEPT ![cws[c]] = @ \ {c}]
        uc1 == [user_connections EXCEPT ![cuser[c]] = None]
    IN  /\ active_connections' = act1
        /\ user_connections' = uc1
        /\ \E b \in broadcast_to_workspace(cws[c], "user_left", cuser[c],
                                           None, None, act1, uc1) :
              /\ bcast' = [bcast EXCEPT ![c] = Frame(b)]
              /\ pc' = [pc EXCEPT ![c] = IF b.status = "sending"
                                          THEN "broadcast" ELSE "done"]

\* send_workspace_state: the send to the new connection succeeds
send_workspace_state(c) ==
    /\ pc[c] = "state_send"
    /\ alive[c]
    /\ pc' = [pc EXCEPT ![c] = "recv"]
    /\ UNCHANGED <<workspace_cache, deal_cache, registry, cuser, cws, alive,
                   bcast, counters>>
    /\ UNCHANGED msgvars
    /\ UNCHANGED vote_message
    /\ UNCHANGED <<tokenvars, tallyvars, ddvars>>

\* send_workspace_state: the send raises.  Which exception the websocket
\* library raises depends on its version: WebSocketDisconnect is handled
\* by the endpoint (disconnect_websocket), any other ends the coroutine.
send_workspace_state_fails(c) ==
    /\ pc[c] = "state_send"
    /\ ~alive[c]
    /\ \E exc \in {"WebSocketDisconnect", "other"} :
          IF exc = "WebSocketDisconnect"
          THEN DisconnectEffect(c) /\ UNCHANGED alive
          ELSE EndpointCrash(c) /\ UNCHANGED <<registry, bcast>>
    /\ UNCHANGED <<workspace_cache, deal_cache, cuser, cws, counters>>
    /\ UNCHANGED msgvars
    /\ UNCHANGED vote_message
    /\ UNCHANGED <<tokenvars, tallyvars, ddvars>>

\* the client goes away
client_drop(c) ==
    /\ pc[c] \in {"broadcast", "state_send", "recv", "error_send",
                  "notify_send"}
    /\ alive[c]
    /\ drops < MaxDrops
    /\ alive' = [alive EXCEPT ![c] = FALSE]
    /\ drops' = drops + 1
    /\ UNCHANGED <<workspace_cache, deal_cache, registry, pc, cuser, cws,
                   bcast, votesCast, ephemeralSent>>
    /\ UNCHANGED msgvars
    /\ UNCHANGED vote_message
    /\ UNCHANGED <<tokenvars, tallyvars, ddvars>>

\* websocket_endpoint: receive_json raises WebSocketDisconnect
websocket_endpoint_disconnect(c) ==
    /\ pc[c] = "recv"
    /\ ~alive[c]
    /\ DisconnectEffect(c)
    /\ UNCHANGED <<workspace_cache, deal_cache, cuser, cws, alive, counters>>
    /\ UNCHANGED msgvars
    /\ UNCHANGED vote_message
    /\ UNCHANGED <<tokenvars, tallyvars, ddvars>>

\* disconnect_websocket resumed after a send of the user_left broadcast
disconnect_websocket_resume(c) ==
    /\ Suspended(c, "user_left")
    /\ \E b \in Resume(c) :
          /\ bcast' = [bcast EXCEPT ![c] = Frame(b)]
          /\ IF b.status = "error"
             THEN EndpointCrash(c)
             ELSE /\ pc' = [pc EXCEPT ![c] = IF b.status = "sending"
                                              THEN "broadcast" ELSE "done"]
                  /\ UNCHANGED alive
    /\ active_connections' = ActiveAfterSend(bcast[c])
    /\ UNCHANGED <<workspace_cache, deal_cache, user_connections, cuser, cws,
                   counters>>
    /\ UNCHANGED msgvars
    /\ UNCHANGED vote_message
    /\ UNCHANGED <<tokenvars, tallyvars, ddvars>>

\* ------------------------------------------- handlers that only broadcast
\* the body shared by handle_cursor_move, handle_selection_change and
\* handle_typing_indicator: one broadcast that excludes the sender
BroadcastOnly(c, type) ==
    /\ ephemeralSent < MaxEphemeral
    /\ ephemeralSent' = ephemeralSent + 1
    /\ \E b \in broadcast_to_workspace(cws[c], type, cuser[c], None,
                                       cuser[c], active_connections,
                                       user_connections) :
          /\ bcast' = [bcast EXCEPT ![c] = Frame(b)]
          /\ pc' = [pc EXCEPT ![c] = IF b.status = "sending"
                                      THEN "broadcast" ELSE "recv"]
    /\ UNCHANGED <<workspace_cache, deal_cache, registry, cuser, cws, alive,
                   votesCast, drops>>
    /\ UNCHANGED msgvars
    /\ UNCHANGED vote_message
    /\ UNCHANGED <<tokenvars, tallyvars, ddvars>>

handle_cursor_move(c) ==
    /\ pc[c] = "recv" /\ alive[c]
    /\ BroadcastOnly(c, "cursor_update")

handle_selection_change(c) ==
    /\ pc[c] = "recv" /\ alive[c]
    /\ BroadcastOnly(c, "selection_update")

handle_typing_indicator(c) ==
    /\ pc[c] = "recv" /\ alive[c]
    /\ BroadcastOnly(c, "typing_indicator")

\* a handler resumed after a send of its only broadcast
HandlerResume(c) ==
    /\ pc[c] = "broadcast"
    /\ bcast[c].status = "sending"
    /\ bcast[c].type \in EphemeralTypes \cup {"deal_updated", "dd_item_updated"}
    /\ \E b \in Resume(c) :
          /\ bcast' = [bcast EXCEPT ![c] = Frame(b)]
          /\ IF b.status = "error"
             THEN EndpointCrash(c)
             ELSE /\ pc' = [pc EXCEPT ![c] = IF b.status = "sending"
                                              THEN "broadcast" ELSE "recv"]
                  /\ UNCHANGED alive
    /\ active_connections' = ActiveAfterSend(bcast[c])
    /\ UNCHANGED <<workspace_cache, deal_cache, user_connections, cuser, cws,
                   counters>>
    /\ UNCHANGED msgvars
    /\ UNCHANGED vote_message
    /\ UNCHANGED <<tokenvars, tallyvars, ddvars>>

\* ------------------------------------------------------------ vote summary
\* the `weights` table of calculate_vote_summary
weights(vote) ==
    CASE vote = "strong_yes" -> 2
      [] vote = "yes" -> 1
      [] vote = "neutral" -> 0
      [] vote = "no" -> -1
      [] vote = "strong_no" -> -2
      [] vote = "abstain" -> 0

\* the keys of a votes dictionary
Voters(votes) == {u \in DOMAIN votes : votes[u] # None}

RECURSIVE SumWeights(_, _)
SumWeights(votes, S) ==
    IF S = {} THEN 0
    ELSE LET u == CHOOSE x \in S : TRUE
         IN  weights(votes[u]) + SumWeights(votes, S \ {u})

\* the vote_counts dictionary: the vote types cast, each with its count
CountVotes(votes) ==
    [v \in {votes[u] : u \in Voters(votes)} |->
         Cardinality({u \in Voters(votes) : votes[u] = v})]

\* max(vote_counts.values())
MaxCount(vote_counts) ==
    CHOOSE m \in {vote_counts[v] : v \in DOMAIN vote_counts} :
        \A v \in DOMAIN vote_counts : vote_counts[v] <= m

\* calculate_consensus with 0.6 as the bound of strong_consensus
calculate_consensus_Strong06(vote_counts, total_votes) ==
    IF total_votes = 0
    THEN "no_consensus"
    ELSE LET max_votes == MaxCount(vote_counts)
         IN  IF 5 * max_votes >= 3 * total_votes THEN "strong_consensus"
             ELSE IF 5 * max_votes >= 3 * total_votes THEN "moderate_consensus"
             ELSE IF 5 * max_votes >= 2 * total_votes THEN "weak_consensus"
             ELSE "no_consensus"

\* calculate_consensus.  consensus_ratio = max_votes / total_votes is
\* compared with 0.8, 0.6 and 0.4; the comparisons are done here on
\* 5 * max_votes and total_votes, which is exact.
calculate_consensus(vote_counts, total_votes) ==
    IF total_votes = 0
    THEN "no_consensus"
    ELSE LET max_votes == MaxCount(vote_counts)
         IN  IF 5 * max_votes >= 4 * total_votes THEN "strong_consensus"
             ELSE IF 5 * max_votes >= 3 * total_votes THEN "moderate_consensus"
             ELSE IF 5 * max_votes >= 2 * total_votes THEN "weak_consensus"
             ELSE "no_consensus"

\* the recommendation of calculate_vote_summary with `>` for `>=`
Recommend_Strict(weighted_score, total_votes) ==
    IF 2 * weighted_score > 3 * total_votes THEN "strong_proceed"
    ELSE IF 2 * weighted_score > total_votes THEN "proceed"
    ELSE IF 2 * weighted_score > -total_votes THEN "further_review"
    ELSE "do_not_proceed"

\* the recommendation of calculate_vote_summary.  avg_score =
\* weighted_score / total_votes is compared with 1.5, 0.5 and -0.5; the
\* comparisons are done here on 2 * weighted_score and total_votes, which
\* is exact.
Recommend(weighted_score, total_votes) ==
    IF 2 * weighted_score >= 3 * total_votes THEN "strong_proceed"
    ELSE IF 2 * weighted_score >= total_votes THEN "proceed"
    ELSE IF 2 * weighted_score >= -total_votes THEN "further_review"
    ELSE "do_not_proceed"

\* calculate_vote_summary.  average_score is the fraction
\* weighted_score / total_votes, kept as numerator and denominator.
calculate_vote_summary(votes) ==
    LET total_votes == Cardinality(Voters(votes))
        weighted_score == SumWeights(votes, Voters(votes))
        vote_counts == CountVotes(votes)
    IN  IF total_votes = 0
        THEN [total_votes |-> 0, weighted_score |-> 0,
              recommendation |-> "pending"]
        ELSE [total_votes |-> total_votes,
              vote_counts |-> vote_counts,
              weighted_score |-> weighted_score,
              average_score |-> [num |-> weighted_score,
                                 den |-> total_votes],
              recommendation |-> Recommend(weighted_score, total_votes),
              consensus_level |->
                  calculate_consensus(vote_counts, total_votes)]

\* get_required_voters: all members of the workspace
get_required_voters(workspace) == workspace.members

\* is_voting_complete(deal, workspace_id)
is_voting_complete(deal, workspace_id) ==
    IF workspace_id \notin DOMAIN workspace_cache
    THEN FALSE
    ELSE \A voter_id \in get_required_voters(workspace_cache[workspace_id]) :
             deal.ic_votes[voter_id] # None

\* log_activity on a deal that get_deal finds
log_activity(deal, user_id, action) ==
    [deal EXCEPT !.activity_log =
                     Append(@, [user_id |-> user_id, action |-> action])]

\* FinalizeStatus with "proceed" left out of the approving recommendations
FinalizeStatus_OnlyStrong(deal) ==
    [deal EXCEPT !.status =
                     IF calculate_vote_summary(deal.ic_votes).recommendation
                            \in {"strong_proceed"}
                     THEN "negotiation" ELSE "closed_lost",
                 !.finals = @ + 1]

\* finalize_ic_decision up to `await self.save_deal(deal)`; finals counts
\* the ic_decision_final broadcasts made for the deal
FinalizeStatus(deal) ==
    [deal EXCEPT !.status =
                     IF calculate_vote_summary(deal.ic_votes).recommendation
                            \in {"strong_proceed", "proceed"}
                     THEN "negotiation" ELSE "closed_lost",
                 !.finals = @ + 1]

\* ------------------------------------------------------- REST operations
\* create_workspace
create_workspace(u) ==
    /\ HasFree(WorkspaceOrder, DOMAIN workspace_cache)
    /\ LET w == FirstFree(WorkspaceOrder, DOMAIN workspace_cache)
       IN  workspace_cache' =
               workspace_cache @@ (w :> [created_by |-> u, members |-> {u}])
    /\ UNCHANGED <<deal_cache, registry, pc, cuser, cws, alive, bcast,
                   counters>>
    /\ UNCHANGED msgvars
    /\ UNCHANGED vote_message
    /\ UNCHANGED <<tokenvars, tallyvars, ddvars>>

\* a member joins a workspace by invitation
invite_member(w, u) ==
    /\ w \in DOMAIN workspace_cache
    /\ u \notin workspace_cache[w].members
    /\ workspace_cache' = [workspace_cache EXCEPT ![w].members = @ \cup {u}]
    /\ UNCHANGED <<deal_cache, registry, pc, cuser, cws, alive, bcast,
                   counters>>
    /\ UNCHANGED msgvars
    /\ UNCHANGED vote_message
    /\ UNCHANGED <<tokenvars, tallyvars, ddvars>>

\* the `categories` dictionary of create_dd_checklist: five legal items,
\* then six financial, six technical, six market and six team items; an
\* item is named by its category and its place in the category's list
ChecklistTemplate ==
    [i \in 1..29 |->
        IF i <= 5 THEN <<"legal", i>>
        ELSE IF i <= 11 THEN <<"financial", i - 5>>
        ELSE IF i <= 17 THEN <<"technical", i - 11>>
        ELSE IF i <= 23 THEN <<"market", i - 17>>
        ELSE <<"team", i - 23>>]

\* the DueDiligenceItem create_dd_checklist builds, with priority medium
\* for every category
DueDiligenceItem_Medium(deal_id, i) ==
    [item_id |-> <<deal_id, i>>, deal_id |-> deal_id,
     category |-> ChecklistTemplate[i][1], title |-> ChecklistTemplate[i],
     assigned_to |-> None, status |-> "pending",
     priority |-> "medium",
     completed_at |-> None]

\* the DueDiligenceItem create_dd_checklist builds for the i-th title; the
\* uuid4 item_id is the pair of the deal and i
DueDiligenceItem(deal_id, i) ==
    [item_id |-> <<deal_id, i>>, deal_id |-> deal_id,
     category |-> ChecklistTemplate[i][1], title |-> ChecklistTemplate[i],
     assigned_to |-> None, status |-> "pending",
     priority |-> IF ChecklistTemplate[i][1] # "financial"
                  THEN "medium" ELSE "high",
     completed_at |-> None]

\* create_dd_checklist: the list it returns, which create_deal drops
create_dd_checklist(deal_id) ==
    [i \in DOMAIN ChecklistTemplate |-> DueDiligenceItem(deal_id, i)]

\* save_dd_item for every item of a checklist: hset under `if
\* self.redis_client:`
save_dd_items(items, checklist) ==
    IF redis_client # None
    THEN [id \in {checklist[i].item_id : i \in DOMAIN checklist} |->
             CHOOSE item \in {checklist[i] : i \in DOMAIN checklist} :
                 item.item_id = id] @@ items
    ELSE items

\* get_dd_item: hget under `if self.redis_client:`, else None
get_dd_item(items, item_id) ==
    IF redis_client # None /\ item_id \in DOMAIN items
    THEN [found |-> TRUE, item |-> items[item_id]]
    ELSE [found |-> FALSE]

\* create_deal up to the first suspension of its deal_created broadcast
create_deal(w, u) ==
    /\ pc[REST] = "idle"
    /\ HasFree(DealOrder, DOMAIN deal_cache)
    /\ LET d == FirstFree(DealOrder, DOMAIN deal_cache)
           deal == [workspace_id |-> w, status |-> "sourced",
                    lead_partner |-> u, team_members |-> <<u>>,
                    ic_votes |-> [x \in Users |-> None],
                    activity_log |-> << >>, finals |-> 0]
       IN  /\ deal_cache' = deal_cache @@ (d :> log_activity(deal, u, "created"))
           /\ dd_checklist' = dd_checklist \cup {d}
           /\ dd_items' = save_dd_items(dd_items, create_dd_checklist(d))
           /\ \E b \in broadcast_to_workspace(w, "deal_created", None, d, None,
                                              active_connections,
                                              user_connections) :
                 /\ bcast' = [bcast EXCEPT ![REST] = Frame(b)]
                 /\ pc' = [pc EXCEPT ![REST] = IF b.status = "sending"
                                                THEN "broadcast" ELSE "idle"]
    /\ UNCHANGED <<workspace_cache, registry, cuser, cws, alive, counters>>
    /\ UNCHANGED msgvars
    /\ UNCHANGED vote_message
    /\ UNCHANGED <<tokenvars, tallyvars, dd_message>>

\* create_deal resumed after a send; an exception ends the request
create_deal_resume ==
    /\ Suspended(REST, "deal_created")
    /\ \E b \in Resume(REST) :
          /\ bcast' = [bcast EXCEPT ![REST] = Frame(b)]
          /\ pc' = [pc EXCEPT ![REST] = IF b.status = "sending"
                                         THEN "broadcast" ELSE "idle"]
    /\ active_connections' = ActiveAfterSend(bcast[REST])
    /\ UNCHANGED <<workspace_cache, deal_cache, user_connections, cuser, cws,
                   alive, counters>>
    /\ UNCHANGED msgvars
    /\ UNCHANGED vote_message
    /\ UNCHANGED <<tokenvars, tallyvars, ddvars>>

\* ---------------------------------------------------------------- voting
\* handle_vote_cast after the vote_update broadcast has returned: the
\* quorum test and, on quorum, finalize_ic_decision up to the first
\* suspension of its ic_decision_final broadcast (or, when that broadcast
\* has nobody to send to, up to the end of the handler).  dc is the deal
\* cache and act the connection sets at that moment.
AfterVoteUpdate(c, d, dc, act) ==
    IF is_voting_complete(dc[d], cws[c])
    THEN LET deal == FinalizeStatus(dc[d])
         IN  \E b \in broadcast_to_workspace(cws[c], "ic_decision_final", None,
                                             d, None, act, user_connections) :
                /\ bcast' = [bcast EXCEPT ![c] = Frame(b)]
                /\ IF b.status = "sending"
                   THEN /\ pc' = [pc EXCEPT ![c] = "broadcast"]
                        /\ deal_cache' = [dc EXCEPT ![d] = deal]
                   ELSE /\ pc' = [pc EXCEPT ![c] = "recv"]
                        /\ deal_cache' =
                               [dc EXCEPT ![d] =
                                    log_activity(deal, "system", "ic_decision")]
    ELSE /\ pc' = [pc EXCEPT ![c] = "recv"]
         /\ bcast' = [bcast EXCEPT ![c] = IdleFrame]
         /\ deal_cache' = dc

\* SetVote that keeps the vote a user has already cast
SetVote_KeepFirst(deal, user_id, vote) ==
    IF deal.ic_votes[user_id] # None
    THEN deal
    ELSE [deal EXCEPT !.ic_votes[user_id] = vote]

\* `deal.ic_votes[user_id] = vote`
SetVote(deal, user_id, vote) ==
    [deal EXCEPT !.ic_votes[user_id] = vote]

\* handle_vote_cast up to the first suspension of its vote_update broadcast
handle_vote_cast(c, d, vote) ==
    /\ pc[c] = "recv"
    /\ alive[c]
    /\ votesCast < MaxVotes
    /\ votesCast' = votesCast + 1
    /\ vote_message' = [connection |-> c, user_id |-> cuser[c],
                        deal_id |-> d, vote |-> vote]
    /\ UNCHANGED <<tokenvars, tallyvars, ddvars>>
    /\ IF d \in DOMAIN deal_cache
       THEN LET dc == [deal_cache EXCEPT ![d] = SetVote(@, cuser[c], vote)]
            IN  \E b \in broadcast_to_workspace(cws[c], "vote_update",
                                                cuser[c], d, None,
                                                active_connections,
                                                user_connections) :
                   IF b.status = "sending"
                   THEN /\ deal_cache' = dc
                        /\ bcast' = [bcast EXCEPT ![c] = b]
                        /\ pc' = [pc EXCEPT ![c] = "broadcast"]
                   ELSE AfterVoteUpdate(c, d, dc, active_connections)
       ELSE UNCHANGED <<deal_cache, bcast, pc>>
    /\ UNCHANGED <<workspace_cache, registry, cuser, cws, alive,
                   ephemeralSent, drops>>
    /\ UNCHANGED msgvars

\* handle_vote_cast for a message whose "vote" is none of the six values of
\* VoteType: VoteType(message.get("vote")) raises ValueError, which neither
\* the handler nor websocket_endpoint catches
handle_vote_cast_invalid(c) ==
    /\ pc[c] = "recv"
    /\ alive[c]
    /\ EndpointCrash(c)
    /\ UNCHANGED <<workspace_cache, deal_cache, registry, cuser, cws, bcast,
                   counters>>
    /\ UNCHANGED msgvars
    /\ UNCHANGED vote_message
    /\ UNCHANGED <<tokenvars, tallyvars, ddvars>>

\* handle_vote_cast resumed after a send of the vote_update broadcast
handle_vote_cast_resume(c) ==
    /\ Suspended(c, "vote_update")
    /\ active_connections' = ActiveAfterSend(bcast[c])
    /\ \E b \in Resume(c) :
          CASE b.status = "sending" ->
                  /\ bcast' = [bcast EXCEPT ![c] = Frame(b)]
                  /\ UNCHANGED <<pc, alive, deal_cache>>
            [] b.status = "error" ->
                  /\ bcast' = [bcast EXCEPT ![c] = Frame(b)]
                  /\ EndpointCrash(c)
                  /\ UNCHANGED deal_cache
            [] b.status = "done" ->
                  /\ AfterVoteUpdate(c, b.deal, deal_cache,
                                     ActiveAfterSend(bcast[c]))
                  /\ UNCHANGED alive
    /\ UNCHANGED <<workspace_cache, user_connections, cuser, cws, counters>>
    /\ UNCHANGED msgvars
    /\ UNCHANGED vote_message
    /\ UNCHANGED <<tokenvars, tallyvars, ddvars>>

\* finalize_ic_decision resumed after a send of the ic_decision_final
\* broadcast; log_activity runs when the broadcast returns
finalize_ic_decision_resume(c) ==
    /\ Suspended(c, "ic_decision_final")
    /\ active_connections' = ActiveAfterSend(bcast[c])
    /\ \E b \in Resume(c) :
          /\ bcast' = [bcast EXCEPT ![c] = Frame(b)]
          /\ CASE b.status = "sending" ->
                     UNCHANGED <<pc, alive, deal_cache>>
               [] b.status = "error" ->
                     EndpointCrash(c) /\ UNCHANGED deal_cache
               [] b.status = "done" ->
                     /\ pc' = [pc EXCEPT ![c] = "recv"]
                     /\ deal_cache' =
                            [deal_cache EXCEPT ![b.deal] =
                                 log_activity(@, "system", "ic_decision")]
                     /\ UNCHANGED alive
    /\ UNCHANGED <<workspace_cache, user_connections, cuser, cws, counters>>
    /\ UNCHANGED msgvars
    /\ UNCHANGED vote_message
    /\ UNCHANGED <<tokenvars, tallyvars, ddvars>>

\* ------------------------------------------------------------ deal_update
\* the status transitions a deal may make
AllowedTransitions ==
    {<<"sourced", "screening">>, <<"screening", "due_diligence">>,
     <<"due_diligence", "partner_review">>, <<"partner_review", "ic_review">>,
     <<"ic_review", "negotiation">>, <<"ic_review", "closed_lost">>,
     <<"negotiation", "closed_won">>, <<"negotiation", "closed_lost">>,
     <<"closed_won", "monitoring">>}

\* handle_deal_update: a client moves a deal one step along the pipeline
\* (never out of ic_review), one activity entry, one deal_updated broadcast
handle_deal_update(c, d, status) ==
    /\ pc[c] = "recv"
    /\ alive[c]
    /\ d \in DOMAIN deal_cache
    /\ deal_cache[d].status # "ic_review"
    /\ <<deal_cache[d].status, status>> \in AllowedTransitions
    /\ deal_cache' = [deal_cache EXCEPT ![d] =
                          log_activity([@ EXCEPT !.status = status],
                                       cuser[c], "updated")]
    /\ \E b \in broadcast_to_workspace(cws[c], "deal_updated", cuser[c], d,
                                       None, active_connections,
                                       user_connections) :
          /\ bcast' = [bcast EXCEPT ![c] = Frame(b)]
          /\ pc' = [pc EXCEPT ![c] = IF b.status = "sending"
                                      THEN "broadcast" ELSE "recv"]
    /\ UNCHANGED <<workspace_cache, registry, cuser, cws, alive, counters>>
    /\ UNCHANGED msgvars
    /\ UNCHANGED vote_message
    /\ UNCHANGED <<tokenvars, tallyvars, ddvars>>

\* ------------------------------------------------- unknown message type
\* handle_websocket_message with the reply sent to every connection of the
\* workspace instead of the sender
handle_websocket_message_unknown_Broadcast(c) ==
    /\ pc[c] = "recv"
    /\ alive[c]
    /\ \E b \in broadcast_to_workspace(cws[c], "error", cuser[c], None, None,
                                       active_connections, user_connections) :
          /\ bcast' = [bcast EXCEPT ![c] = Frame(b)]
          /\ pc' = [pc EXCEPT ![c] = IF b.status = "sending"
                                      THEN "broadcast" ELSE "recv"]
    /\ UNCHANGED <<workspace_cache, deal_cache, registry, cuser, cws, alive,
                   counters, msgvars>>
    /\ UNCHANGED vote_message
    /\ UNCHANGED <<tokenvars, tallyvars, ddvars>>

\* handle_websocket_message when `handlers.get(message_type)` is None, up
\* to the awaited send_json of the error reply to the sender
handle_websocket_message_unknown(c) ==
    /\ pc[c] = "recv"
    /\ alive[c]
    /\ pc' = [pc EXCEPT ![c] = "error_send"]
    /\ UNCHANGED <<workspace_cache, deal_cache, registry, cuser, cws, alive,
                   bcast, counters, msgvars>>
    /\ UNCHANGED vote_message
    /\ UNCHANGED <<tokenvars, tallyvars, ddvars>>

\* the error reply is sent; the endpoint awaits the next message
error_reply_sent(c) ==
    /\ pc[c] = "error_send"
    /\ alive[c]
    /\ pc' = [pc EXCEPT ![c] = "recv"]
    /\ UNCHANGED <<workspace_cache, deal_cache, registry, cuser, cws, alive,
                   bcast, counters, msgvars>>
    /\ UNCHANGED vote_message
    /\ UNCHANGED <<tokenvars, tallyvars, ddvars>>

\* the send of the error reply raises (see send_workspace_state_fails)
error_reply_fails(c) ==
    /\ pc[c] = "error_send"
    /\ ~alive[c]
    /\ \E exc \in {"WebSocketDisconnect", "other"} :
          IF exc = "WebSocketDisconnect"
          THEN DisconnectEffect(c) /\ UNCHANGED alive
          ELSE EndpointCrash(c) /\ UNCHANGED <<registry, bcast>>
    /\ UNCHANGED <<workspace_cache, deal_cache, cuser, cws, counters, msgvars>>
    /\ UNCHANGED vote_message
    /\ UNCHANGED <<tokenvars, tallyvars, ddvars>>

\* ------------------------------------------------------ send_notification
\* `self.redis_client.lpush(f"notifications:{user_id}", ...)` under
\* `if self.redis_client:`
lpush(queue, user_id, notification) ==
    IF redis_client # None
    THEN [queue EXCEPT ![user_id] = <<notification>> \o @]
    ELSE queue

\* send_notification for the users of `pending`, in order, up to the first
\* user with an entry in user_connections (whose send_json is awaited):
\* for a user without entry only the queue part runs
RECURSIVE SkipOffline(_, _, _)
SkipOffline(pending, event, queue) ==
    IF pending = << >> \/ user_connections[Head(pending)] # None
    THEN [pending |-> pending, queue |-> queue]
    ELSE SkipOffline(Tail(pending), event, lpush(queue, Head(pending), event))

\* `for mentioned_user in mentioned_users: await self.send_notification(..)`
\* up to the next suspension or to the end of the handler
SendNotifications(c, pending, event, queue) ==
    LET r == SkipOffline(pending, event, queue)
    IN  /\ notification_queue' = r.queue
        /\ IF r.pending = << >>
           THEN /\ notif' = [notif EXCEPT ![c] = IdleNotif]
                /\ pc' = [pc EXCEPT ![c] = "recv"]
           ELSE /\ notif' = [notif EXCEPT ![c] =
                                 [pending |-> r.pending, event |-> event,
                                  cur |-> user_connections[Head(r.pending)]]]
                /\ pc' = [pc EXCEPT ![c] = "notify_send"]

\* send_notification resumed after its send_json: the send returned, or it
\* raised and the exception was caught and printed; then the queue part
send_notification_resume(c) ==
    /\ pc[c] = "notify_send"
    /\ SendNotifications(c, Tail(notif[c].pending), notif[c].event,
                         lpush(notification_queue, Head(notif[c].pending),
                               notif[c].event))
    /\ UNCHANGED <<workspace_cache, deal_cache, registry, cuser, cws, alive,
                   bcast, counters>>
    /\ UNCHANGED vote_message
    /\ UNCHANGED <<tokenvars, tallyvars, ddvars>>

\* ------------------------------------------------------ annotation_create
\* the lists extract_mentions can return
MentionLists == {<< >>, <<"u1">>, <<"u2">>, <<"u1", "u2">>, <<"u2", "u1">>}

\* handle_annotation_create up to the first suspension: the annotation is
\* built and saved (save_annotation does nothing without redis client) and
\* annotation_created is broadcast to the connection's workspace
handle_annotation_create(c, d, mentioned) ==
    /\ pc[c] = "recv"
    /\ alive[c]
    /\ LET event == [type |-> "mention", from_user |-> cuser[c],
                     deal_id |-> d]
       IN  \E b \in broadcast_to_workspace(cws[c], "annotation_created",
                                           cuser[c], d, None,
                                           active_connections,
                                           user_connections) :
              /\ bcast' = [bcast EXCEPT ![c] = Frame(b)]
              /\ IF b.status = "sending"
                 THEN /\ pc' = [pc EXCEPT ![c] = "broadcast"]
                      /\ notif' = [notif EXCEPT ![c] =
                                       [pending |-> mentioned,
                                        event |-> event, cur |-> None]]
                      /\ UNCHANGED notification_queue
                 ELSE SendNotifications(c, mentioned, event,
                                        notification_queue)
    /\ UNCHANGED <<workspace_cache, deal_cache, registry, cuser, cws, alive,
                   counters>>
    /\ UNCHANGED vote_message
    /\ UNCHANGED <<tokenvars, tallyvars, ddvars>>

\* handle_annotation_create resumed after a send of its broadcast
handle_annotation_create_resume(c) ==
    /\ Suspended(c, "annotation_created")
    /\ active_connections' = ActiveAfterSend(bcast[c])
    /\ \E b \in Resume(c) :
          /\ bcast' = [bcast EXCEPT ![c] = Frame(b)]
          /\ CASE b.status = "sending" ->
                     UNCHANGED <<pc, alive, msgvars>>
               [] b.status = "error" ->
                     /\ EndpointCrash(c)
                     /\ notif' = [notif EXCEPT ![c] = IdleNotif]
                     /\ UNCHANGED notification_queue
               [] b.status = "done" ->
                     /\ SendNotifications(c, notif[c].pending, notif[c].event,
                                          notification_queue)
                     /\ UNCHANGED alive
    /\ UNCHANGED <<workspace_cache, deal_cache, user_connections, cuser, cws,
                   counters>>
    /\ UNCHANGED vote_message
    /\ UNCHANGED <<tokenvars, tallyvars, ddvars>>

\* -------------------------------------------------------- specifications
\* Spec: the hub from construction, with the REST operations, one websocket
\* connection and every deal operation.
LifecycleConns == {"c1"}

Next ==
    \/ \E c \in LifecycleConns, u \in Users, w \in Workspaces :
          connect_websocket(c, u, w)
    \/ \E c \in Conns : send_workspace_state(c)
    \/ \E c \in Conns : send_workspace_state_fails(c)
    \/ \E c \in Conns : client_drop(c)
    \/ \E c \in Conns : websocket_endpoint_disconnect(c)
    \/ \E u \in Users : create_workspace(u)
    \/ \E w \in Workspaces, u \in Users : invite_member(w, u)
    \/ \E w \in Workspaces, u \in Users : create_deal(w, u)
    \/ create_deal_resume
    \/ \E c \in Conns, d \in Deals, v \in VoteType : handle_vote_cast(c, d, v)
    \/ \E c \in Conns : handle_vote_cast_resume(c)
    \/ \E c \in Conns : finalize_ic_decision_resume(c)
    \/ \E c \in Conns, d \in Deals, s \in DealStatus : handle_deal_update(c, d, s)
    \/ \E c \in Conns : HandlerResume(c)

Spec == Init /\ [][Next]_vars

\* SpecHub: the hub as connection registry and broadcaster, three websocket
\* connections, no deals.
NextHub ==
    \/ \E c \in Conns, u \in Users, w \in Workspaces : connect_websocket(c, u, w)
    \/ \E c \in Conns : connect_websocket_resume(c)
    \/ \E c \in Conns : send_workspace_state(c)
    \/ \E c \in Conns : send_workspace_state_fails(c)
    \/ \E c \in Conns : client_drop(c)
    \/ \E c \in Conns : websocket_endpoint_disconnect(c)
    \/ \E c \in Conns : disconnect_websocket_resume(c)
    \/ \E c \in Conns : handle_cursor_move(c)
    \/ \E c \in Conns : handle_selection_change(c)
    \/ \E c \in Conns : handle_typing_indicator(c)
    \/ \E c \in Conns : HandlerResume(c)

SpecHub == Init /\ [][NextHub]_vars

\* SpecVoting: investment committee voting by two websocket connections.
\* It starts in the state Spec is in after u1 has created workspace w1 and
\* deal d1, moved the deal to ic_review over connection c1 and left.
InitVoting ==
    /\ workspace_cache = ("w1" :> [created_by |-> "u1", members |-> {"u1"}])
    /\ deal_cache =
          ("d1" :> [workspace_id |-> "w1", status |-> "ic_review",
                    lead_partner |-> "u1", team_members |-> <<"u1">>,
                    ic_votes |-> [x \in Users |-> None],
                    activity_log |->
                        <<[user_id |-> "u1", action |-> "created"],
                          [user_id |-> "u1", action |-> "updated"],
                          [user_id |-> "u1", action |-> "updated"],
                          [user_id |-> "u1", action |-> "updated"],
                          [user_id |-> "u1", action |-> "updated"]>>,
                    finals |-> 0])
    /\ active_connections = [w \in Workspaces |-> {}]
    /\ user_connections = [u \in Users |-> None]
    /\ pc = [t \in Tasks |-> IF t = REST THEN "idle"
                             ELSE IF t = "c1" THEN "done" ELSE "new"]
    /\ cuser = [c \in Conns |-> IF c = "c1" THEN "u1" ELSE None]
    /\ cws = [c \in Conns |-> IF c = "c1" THEN "w1" ELSE None]
    /\ alive = [c \in Conns |-> FALSE]
    /\ bcast = [t \in Tasks |-> IdleFrame]
    /\ notif = [c \in Conns |-> IdleNotif]
    /\ notification_queue = [u \in Users |-> << >>]
    /\ vote_message = NoVote
    /\ votesCast = 0
    /\ ephemeralSent = 0
    /\ drops = 0
    /\ NoTokens /\ NoBallot /\ NoChecklist

NextVoting ==
    \/ \E c \in Conns, u \in Users, w \in Workspaces : connect_websocket(c, u, w)
    \/ \E c \in Conns : connect_websocket_resume(c)
    \/ \E c \in Conns : send_workspace_state(c)
    \/ \E c \in Conns : send_workspace_state_fails(c)
    \/ \E c \in Conns : client_drop(c)
    \/ \E c \in Conns : websocket_endpoint_disconnect(c)
    \/ \E c \in Conns : disconnect_websocket_resume(c)
    \/ \E w \in Workspaces, u \in Users : invite_member(w, u)
    \/ \E c \in Conns, d \in Deals, v \in VoteType : handle_vote_cast(c, d, v)
    \/ \E c \in Conns : handle_vote_cast_resume(c)
    \/ \E c \in Conns : finalize_ic_decision_resume(c)

SpecVoting == InitVoting /\ [][NextVoting]_vars

\* SpecMessages: message dispatch by two websocket connections: unknown
\* message types and annotations with their notifications.
MessageConns == {"c1", "c2"}

NextMessages ==
    \/ \E c \in MessageConns, u \in Users, w \in Workspaces :
          connect_websocket(c, u, w)
    \/ \E c \in Conns : connect_websocket_resume(c)
    \/ \E c \in Conns : send_workspace_state(c)
    \/ \E c \in Conns : send_workspace_state_fails(c)
    \/ \E c \in Conns : client_drop(c)
    \/ \E c \in Conns : websocket_endpoint_disconnect(c)
    \/ \E c \in Conns : disconnect_websocket_resume(c)
    \/ \E c \in Conns : handle_websocket_message_unknown(c)
    \/ \E c \in Conns : error_reply_sent(c)
    \/ \E c \in Conns : error_reply_fails(c)
    \/ \E c \in Conns, d \in Deals, m \in MentionLists :
          handle_annotation_create(c, d, m)
    \/ \E c \in Conns : handle_annotation_create_resume(c)
    \/ \E c \in Conns : send_notification_resume(c)
    \/ \E c \in Conns : handle_vote_cast_invalid(c)

SpecMessages == Init /\ [][NextMessages]_vars

\* ------------------------------------------------- due diligence items
\* the item ids and the `updates` of the dd_item_update messages sent: the
\* first legal and the first financial item of a deal, and a new status
DDItemIds == {<<d, i>> : d \in Deals, i \in {1, 6}}
DDStatuses == {"in_progress", "completed"}

\* handle_dd_item_update with updates = {"status": status}, up to its first
\* suspension.  When get_dd_item finds the item: the update is applied and,
\* for "completed", completed_at is set and send_notification is called for
\* assigned_to, which awaits send_json when that user has a connection
\* (the handler resumes from "dd_notify_send" with the queue part,
\* save_dd_item and the broadcast); otherwise the queue part, save_dd_item
\* and the start of the dd_item_updated broadcast follow at once.  When
\* get_dd_item returns None the handler does nothing.
handle_dd_item_update(c, item_id, status) ==
    /\ pc[c] = "recv"
    /\ alive[c]
    /\ dd_message' = [connection |-> c, user_id |-> cuser[c],
                      item_id |-> item_id, status |-> status]
    /\ LET r == get_dd_item(dd_items, item_id)
       IN  IF r.found
           THEN LET dd_item ==
                        [r.item EXCEPT !.status = status,
                                       !.completed_at =
                                           IF status = "completed"
                                           THEN "utcnow" ELSE @]
                    event == [type |-> "dd_completed", item |-> dd_item.title,
                              completed_by |-> cuser[c]]
                IN  IF /\ status = "completed"
                       /\ dd_item.assigned_to \in Users
                       /\ user_connections[dd_item.assigned_to] # None
                    THEN /\ pc' = [pc EXCEPT ![c] = "dd_notify_send"]
                         /\ notif' = [notif EXCEPT ![c] =
                                [pending |-> <<dd_item.assigned_to>>,
                                 event |-> event,
                                 cur |-> user_connections[dd_item.assigned_to]]]
                         /\ UNCHANGED <<dd_items, notification_queue, bcast>>
                    ELSE /\ notification_queue' =
                                IF status = "completed"
                                THEN lpush(notification_queue,
                                           dd_item.assigned_to, event)
                                ELSE notification_queue
                         /\ dd_items' = [dd_items EXCEPT ![item_id] = dd_item]
                         /\ \E b \in broadcast_to_workspace(
                                         cws[c], "dd_item_updated", cuser[c],
                                         None, None, active_connections,
                                         user_connections) :
                               /\ bcast' = [bcast EXCEPT ![c] = Frame(b)]
                               /\ pc' = [pc EXCEPT ![c] =
                                            IF b.status = "sending"
                                            THEN "broadcast" ELSE "recv"]
                         /\ UNCHANGED notif
           ELSE UNCHANGED <<pc, notif, notification_queue, dd_items, bcast>>
    /\ UNCHANGED <<workspace_cache, deal_cache, registry, cuser, cws, alive,
                   counters>>
    /\ UNCHANGED vote_message
    /\ UNCHANGED <<tokenvars, tallyvars, dd_checklist>>

\* SpecDeals: deals created over REST while one websocket connection
\* casts votes and updates due diligence items
NextDeals ==
    \/ \E c \in LifecycleConns, u \in Users, w \in Workspaces :
          connect_websocket(c, u, w)
    \/ \E c \in Conns : send_workspace_state(c)
    \/ \E c \in Conns : send_workspace_state_fails(c)
    \/ \E c \in Conns : client_drop(c)
    \/ \E c \in Conns : websocket_endpoint_disconnect(c)
    \/ \E u \in Users : create_workspace(u)
    \/ \E w \in Workspaces, u \in Users : create_deal(w, u)
    \/ create_deal_resume
    \/ \E c \in Conns, d \in Deals, v \in VoteType : handle_vote_cast(c, d, v)
    \/ \E c \in Conns : handle_vote_cast_resume(c)
    \/ \E c \in Conns : finalize_ic_decision_resume(c)
    \/ \E c \in Conns, i \in DDItemIds, s \in DDStatuses :
          handle_dd_item_update(c, i, s)

SpecDeals == Init /\ [][NextDeals]_vars

\* ------------------------------------------------------- outbound events
\* the keys of the dictionary each broadcast_to_workspace call is given
MessageKeys(type) ==
    CASE type = "user_joined" -> {"type", "user_id", "timestamp"}
      [] type = "user_left" -> {"type", "user_id", "timestamp"}
      [] type = "cursor_update" ->
             {"type", "user_id", "position", "timestamp"}
      [] type = "selection_update" ->
             {"type", "user_id", "selection", "timestamp"}
      [] type = "annotation_created" ->
             {"type", "annotation", "user_id", "timestamp"}
      [] type = "vote_update" ->
             {"type", "deal_id", "user_id", "vote", "vote_summary",
              "timestamp"}
      [] type = "dd_item_updated" ->
             {"type", "item_id", "updates", "user_id", "timestamp"}
      [] type = "typing_indicator" ->
             {"type", "user_id", "is_typing", "context", "timestamp"}
      [] type = "deal_created" ->
             {"type", "deal", "created_by", "timestamp"}
      [] type = "ic_decision_final" ->
             {"type", "deal_id", "decision", "vote_summary", "timestamp"}

\* ------------------------------------------------------------ share tokens
\* generate_share_token and verify_share_token.  The clock counts days.
ShareDeals == {"d1", "d2"}
PermissionKeys == {"can_edit"}
PermissionSets == [PermissionKeys -> BOOLEAN]

\* self.jwt_secret, and a key the hub does not hold
jwt_secret == "JWT_SECRET"
ForeignKey == "foreign-key"

\* the HMAC-SHA256 tag of the signing input under a key
HS256(key, header, body) == <<"HS256", key, header, body>>

\* jwt.encode(payload, key, algorithm="HS256"): the header, the payload
\* serialised as JSON with exp and iat as numeric dates, and the tag
jwt_encode(payload, key) ==
    LET header == <<"alg", "HS256", "typ", "JWT">>
        body == <<"deal_id", payload.deal_id,
                  "permissions", payload.permissions,
                  "exp", payload.exp, "iat", payload.iat>>
    IN  [header |-> header, body |-> body,
         signature |-> HS256(key, header, body)]

\* generate_share_token(deal_id, permissions) called at time t
generate_share_token(deal_id, permissions, t) ==
    jwt_encode([deal_id |-> deal_id, permissions |-> permissions,
                exp |-> t + 7, iat |-> t],
               jwt_secret)

\* jwt_decode that does not compare the signature
jwt_decode_Unverified(token, key, t) ==
    IF DOMAIN token # {"header", "body", "signature"}
    THEN [error |-> "DecodeError"]
    ELSE IF token.header[2] # "HS256"
    THEN [error |-> "InvalidAlgorithmError"]
    ELSE IF token.body[6] <= t
    THEN [error |-> "ExpiredSignatureError"]
    ELSE [error |-> None,
          payload |-> [deal_id |-> token.body[2],
                       permissions |-> token.body[4],
                       exp |-> token.body[6], iat |-> token.body[8]]]

\* jwt.decode(token, key, algorithms=["HS256"]) called at time t: the
\* structure, the algorithm and the signature are checked before exp
jwt_decode(token, key, t) ==
    IF DOMAIN token # {"header", "body", "signature"}
    THEN [error |-> "DecodeError"]
    ELSE IF token.header[2] # "HS256"
    THEN [error |-> "InvalidAlgorithmError"]
    ELSE IF token.signature # HS256(key, token.header, token.body)
    THEN [error |-> "InvalidSignatureError"]
    ELSE IF token.body[6] <= t
    THEN [error |-> "ExpiredSignatureError"]
    ELSE [error |-> None,
          payload |-> [deal_id |-> token.body[2],
                       permissions |-> token.body[4],
                       exp |-> token.body[6], iat |-> token.body[8]]]

\* verify_share_token(token) called at time t: the payload, or the
\* HTTPException raised.  ExpiredSignatureError is caught first; every other
\* error of jwt.decode is an InvalidTokenError.
verify_share_token(token, t) ==
    LET r == jwt_decode(token, jwt_secret, t)
    IN  IF r.error = None
        THEN [raised |-> FALSE, payload |-> r.payload]
        ELSE IF r.error = "ExpiredSignatureError"
        THEN [raised |-> TRUE, status_code |-> 401,
              detail |-> "Share link expired"]
        ELSE [raised |-> TRUE, status_code |-> 401,
              detail |-> "Invalid share token"]

\* tokens that are not the output of generate_share_token: an issued token
\* with its body, its header or its signature replaced, and a string that
\* is no token
Tampered(token) ==
    {[token EXCEPT !.body[2] = d] : d \in ShareDeals \ {token.body[2]}}
    \cup {[token EXCEPT !.body[4] = p] :
              p \in PermissionSets \ {token.body[4]}}
    \cup {[token EXCEPT !.body[6] = @ + 1]}
    \cup {[token EXCEPT !.header[2] = "none"]}
    \cup {[token EXCEPT !.signature =
                            HS256(ForeignKey, token.header, token.body)]}
    \cup {Malformed}

\* a caller of share_deal obtains a token
GenerateShareToken(deal_id, permissions) ==
    /\ share_token' = [deal_id |-> deal_id, permissions |-> permissions,
                       issued_at |-> now,
                       token |-> generate_share_token(deal_id, permissions,
                                                      now)]
    /\ UNCHANGED <<now, presented, verify_result>>
    /\ UNCHANGED <<hubvars, tallyvars, ddvars>>

\* a day passes
Tick ==
    /\ now < MaxClock
    /\ now' = now + 1
    /\ UNCHANGED <<share_token, presented, verify_result>>
    /\ UNCHANGED <<hubvars, tallyvars, ddvars>>

\* a share link is resolved with the issued token
VerifyShareToken ==
    /\ share_token.deal_id # None
    /\ presented' = share_token.token
    /\ verify_result' = [at |-> now,
                         outcome |-> verify_share_token(share_token.token, now)]
    /\ UNCHANGED <<now, share_token>>
    /\ UNCHANGED <<hubvars, tallyvars, ddvars>>

\* a share link is resolved with a token that was not issued
VerifyTampered ==
    /\ share_token.deal_id # None
    /\ \E token \in Tampered(share_token.token) :
          /\ presented' = token
          /\ verify_result' = [at |-> now,
                               outcome |-> verify_share_token(token, now)]
    /\ UNCHANGED <<now, share_token>>
    /\ UNCHANGED <<hubvars, tallyvars, ddvars>>

\* SpecTokens: share tokens generated and verified as days pass
NextTokens ==
    \/ \E d \in ShareDeals, p \in PermissionSets : GenerateShareToken(d, p)
    \/ Tick
    \/ VerifyShareToken
    \/ VerifyTampered

SpecTokens == Init /\ [][NextTokens]_vars

\* ------------------------------------------------- summaries of ballots
\* calculate_vote_summary applied to votes dictionaries of up to
\* MaxCommittee voters
Committee == 1..MaxCommittee

\* `votes[user_id] = vote` for the next voter of the committee
CastBallot(u, vote) ==
    /\ u = Cardinality(DOMAIN ballot) + 1
    /\ ballot' = (u :> vote) @@ ballot
    /\ ballot_summary' = NoSummary
    /\ UNCHANGED <<hubvars, tokenvars, ddvars>>

\* calculate_vote_summary(votes)
Summarize ==
    /\ ballot_summary = NoSummary
    /\ ballot_summary' = calculate_vote_summary(ballot)
    /\ UNCHANGED ballot
    /\ UNCHANGED <<hubvars, tokenvars, ddvars>>

NextTally ==
    \/ \E u \in Committee, v \in VoteType : CastBallot(u, v)
    \/ Summarize

SpecTally == Init /\ [][NextTally]_vars

\* ------------------------------------------------------------- properties
\* vocabulary of the properties
CachedDeals == DOMAIN deal_cache

\* the entries of one action in a deal's activity log
EntriesOf(deal, action) ==
    {i \in 1..Len(deal.activity_log) : deal.activity_log[i].action = action}

\* the members of the deal's own workspace without a recorded vote
MissingVoters(deal) ==
    IF deal.workspace_id \in DOMAIN workspace_cache
    THEN {m \in workspace_cache[deal.workspace_id].members :
              deal.ic_votes[m] = None}
    ELSE {}

\* every member of the deal's own workspace has a recorded vote
AllRequiredVoted(deal) ==
    /\ deal.workspace_id \in DOMAIN workspace_cache
    /\ MissingVoters(deal) = {}

\* no coroutine is inside connect, disconnect or a message handler
Quiescent == \A t \in Tasks : pc[t] \notin {"broadcast", "state_send"}

\* finalize_ic_decision runs on deal d in this step
Finalizes(d) == deal_cache'[d].finals > deal_cache[d].finals

\* coroutine t takes this step while suspended in a broadcast
BroadcastStep(t) ==
    /\ bcast[t].status = "sending"
    /\ bcast'[t] # bcast[t]

\* ... and the step leaves the broadcast suspended at its next send
Continues(t) ==
    /\ bcast'[t].status = "sending"
    /\ bcast'[t].type = bcast[t].type
    /\ bcast'[t].snapshot = bcast[t].snapshot
    /\ bcast[t].attempted \subseteq bcast'[t].attempted
    /\ bcast'[t].attempted # bcast[t].attempted

\* ... or ends the broadcast, by return or by exception
Ends(t) == BroadcastStep(t) /\ ~Continues(t)

\* the connections the broadcast must not deliver to: those of exclude_user
OwnedByExcluded(b) == {c \in Conns : b.exclude # None /\ cuser[c] = b.exclude}

\* the connections held in some workspace's connection set
RegisteredConns == UNION {active_connections[w] : w \in Workspaces}

\* the design's assumption: one live connection per (user, workspace) pair
OnePerPair ==
    \A c1, c2 \in RegisteredConns :
        (cuser[c1] = cuser[c2] /\ cws[c1] = cws[c2]) => c1 = c2

\* no user holds two connections at all
OnePerUser ==
    \A c1, c2 \in RegisteredConns : cuser[c1] = cuser[c2] => c1 = c2

\* C1: at most one ic_decision_final event is ever broadcast for a deal
C1_FinalizedOnce ==
    \A d \in CachedDeals : deal_cache[d].finals <= 1

\* C2: once a deal has been finalized, a later vote_cast neither changes its
\* status nor appends a second ic_decision activity entry
C2_RefinalizeNoOp ==
    [][\A d \in CachedDeals :
          deal_cache[d].finals >= 1 =>
              /\ deal_cache'[d].status = deal_cache[d].status
              /\ Cardinality(EntriesOf(deal_cache'[d], "ic_decision")) <= 1]_vars

\* C3: every change of a deal's status is one of the allowed transitions
C3_AllowedTransitionsOnly ==
    [][\A d \in CachedDeals :
          deal_cache'[d].status # deal_cache[d].status =>
              <<deal_cache[d].status, deal_cache'[d].status>>
                  \in AllowedTransitions]_vars

\* C4: when every member of the deal's workspace has voted on a deal in
\* ic_review, the deal is finalized without a further client message: no
\* state in which all coroutines are at rest still has such a deal.  Stated
\* for the case that every connection is to the deal's own workspace.
C4_QuorumFinalizes ==
    Quiescent =>
        \A d \in CachedDeals :
            ~ /\ deal_cache[d].status = "ic_review"
              /\ AllRequiredVoted(deal_cache[d])
              /\ \A c \in Conns :
                    cws[c] \in {None, deal_cache[d].workspace_id}

\* C5: while a member of the deal's workspace has no recorded vote,
\* finalize_ic_decision does not run on the deal: no status change by
\* vote_cast and no ic_decision_final event
C5_NoFinalizeBeforeQuorum ==
    [][\A d \in CachedDeals :
          Finalizes(d) => MissingVoters(deal_cache'[d]) = {}]_vars

\* C6: finalize sets status negotiation exactly when the recommendation
\* computed from the recorded votes is strong_proceed or proceed, and
\* closed_lost for every other recommendation
C6_StatusFollowsRecommendation ==
    [][\A d \in CachedDeals :
          Finalizes(d) =>
              LET rec == calculate_vote_summary(deal_cache'[d].ic_votes)
                             .recommendation
              IN  /\ rec \in {"strong_proceed", "proceed"}
                        => deal_cache'[d].status = "negotiation"
                  /\ rec \in {"further_review", "do_not_proceed", "pending"}
                        => deal_cache'[d].status = "closed_lost"]_vars

\* C6 witness: a deal finalized to negotiation on two recorded votes
C6_Witness ==
    \E d \in CachedDeals :
        /\ deal_cache[d].finals = 1
        /\ deal_cache[d].status = "negotiation"
        /\ Cardinality(Voters(deal_cache[d].ic_votes)) = 2
        /\ \E c \in Conns : Suspended(c, "ic_decision_final")

\* C7: a broadcast with exclude_user never sends to a connection of that
\* user, and one that returns has sent to every other connection that was
\* registered in the workspace when it began.  Stated for registries with at
\* most one connection per (user, workspace) pair.
C7_BroadcastExcludesSender ==
    [][\A t \in Tasks :
          (OnePerPair /\ bcast[t].status = "sending") =>
              /\ bcast[t].attempted \cap OwnedByExcluded(bcast[t]) = {}
              /\ (Ends(t) /\ pc'[t] # "crashed") =>
                     bcast[t].snapshot \ OwnedByExcluded(bcast[t])
                         \subseteq bcast[t].attempted]_vars

\* C8: a broadcast in which a send fails still attempts delivery to every
\* other non-excluded connection registered when it began.  Stated for
\* registries in which every user holds at most one connection.
C8_FailureDoesNotAbort ==
    [][\A t \in Tasks :
          (OnePerUser /\ Ends(t)
             /\ (bcast[t].failed # {} \/ ~alive[bcast[t].cur])) =>
              bcast[t].snapshot \ OwnedByExcluded(bcast[t])
                  \subseteq bcast[t].attempted]_vars

\* C9: a connection whose send fails is removed from the workspace's set
\* and from the user map, and the failure does not reach the handler.
\* Stated for registries in which every user holds at most one connection.
C9_DeadConnectionPruned ==
    [][\A t \in Tasks :
          (OnePerUser /\ BroadcastStep(t) /\ ~alive[bcast[t].cur]) =>
              /\ bcast[t].cur \notin active_connections'[bcast[t].ws]
              /\ \A u \in Users : user_connections'[u] # bcast[t].cur
              /\ pc'[t] # "crashed"]_vars

\* C10: a broadcast without send failure completes for the connections
\* registered when it began, whatever registers or unregisters meanwhile,
\* and sends to no connection registered later.  Stated for registries in
\* which every user holds at most one connection.
C10_RegistrationDuringBroadcast ==
    [][\A t \in Tasks :
          (OnePerUser /\ BroadcastStep(t)
             /\ bcast[t].failed = {} /\ alive[bcast[t].cur]) =>
              /\ pc'[t] # "crashed"
              /\ bcast'[t].status = "sending" =>
                     bcast'[t].attempted \subseteq bcast'[t].snapshot
              /\ Ends(t) =>
                     (bcast[t].snapshot \cap active_connections[bcast[t].ws])
                         \ OwnedByExcluded(bcast[t])
                             \subseteq bcast[t].attempted]_vars

\* the endpoint coroutine of c is running (connected, not yet returned)
Running(c) == pc[c] \in {"broadcast", "state_send", "recv", "error_send",
                         "notify_send"}

\* disconnect_websocket begins for c in this step
DisconnectStep(c) ==
    /\ pc[c] \in {"recv", "state_send", "error_send", "notify_send"}
    /\ ~alive[c]
    /\ pc'[c] \in {"broadcast", "done"}

\* C11: a user may hold connections in different workspaces: every live
\* registered connection is attributable to its user through the
\* user-to-connection map, also after the user registered or unregistered
\* a connection in another workspace.  Stated for registries with at most
\* one connection per (user, workspace) pair.
C11_SameUserTwoWorkspaces ==
    OnePerPair =>
        \A c \in Conns :
            (Running(c) /\ alive[c] /\ c \in active_connections[cws[c]]) =>
                get_user_id_from_connection(user_connections, c) = cuser[c]

\* C12: after a second connect of the same (user, workspace) pair the
\* workspace's set holds exactly one connection of that user, the new one,
\* and the later disconnect of the old connection leaves the new
\* connection's entry in the user-to-connection map
C12_ReconnectReplaces ==
    [][\A c \in Conns :
          /\ (pc[c] = "new" /\ pc'[c] # "new") =>
                 {x \in active_connections'[cws'[c]] : cuser'[x] = cuser'[c]}
                     = {c}
          /\ DisconnectStep(c) =>
                 \A x \in Conns \ {c} :
                     (/\ cuser[x] = cuser[c]
                      /\ cws[x] = cws[c]
                      /\ user_connections[cuser[c]] = x) =>
                         user_connections'[cuser[c]] = x]_vars

\* no user has ever opened a second connection
OneConnectionEach ==
    \A x, y \in Conns :
        (pc[x] # "new" /\ pc[y] # "new" /\ cuser[x] = cuser[y]) => x = y

\* C13: the endpoint of a connection whose client has dropped ends through
\* disconnect_websocket and not through an exception: the connection leaves
\* the workspace's set and the user map, and the user_left broadcast reaches
\* every connection still registered in the workspace.  Stated for users
\* who each open one connection, and for drops after the initial workspace
\* state has been sent.
C13_DropUnregisters ==
    [][\A c \in Conns :
          (/\ OneConnectionEach
           /\ ~alive[c]
           /\ pc[c] \in {"recv", "broadcast"}
           /\ pc'[c] \in {"done", "crashed"}) =>
              /\ DisconnectStep(c) \/ bcast[c].type = "user_left"
              /\ c \notin RegisteredConns'
              /\ \A u \in Users : user_connections'[u] # c
              /\ bcast[c].type = "user_left" =>
                     bcast[c].snapshot \subseteq bcast[c].attempted]_vars

\* the users of a list of mentions
UsersOf(pending) == {pending[i] : i \in 1..Len(pending)}

C15_NotificationQueued ==
    [][\A c \in Conns :
          /\ (notif[c].pending # << >> /\ pc'[c] # "crashed") =>
                 \A u \in UsersOf(notif[c].pending)
                              \ UsersOf(notif'[c].pending) :
                     Len(notification_queue'[u])
                         = Len(notification_queue[u]) + 1
          /\ pc'[c] = "notify_send" =>
                 notif'[c].cur = user_connections'[Head(notif'[c].pending)]]_vars

\* this step dispatches a vote_cast message
VoteCastStep == votesCast' = votesCast + 1

\* C16: a vote_cast by user u on deal d leaves ic_votes[u] equal to the
\* vote just cast, whatever u had voted before, and the entries of all
\* other users unchanged; no other step changes ic_votes
C16_LastVoteWins ==
    [][\A d \in CachedDeals :
          IF VoteCastStep /\ vote_message'.deal_id = d
          THEN /\ deal_cache'[d].ic_votes[vote_message'.user_id]
                      = vote_message'.vote
               /\ \A u \in Users \ {vote_message'.user_id} :
                      deal_cache'[d].ic_votes[u] = deal_cache[d].ic_votes[u]
          ELSE deal_cache'[d].ic_votes = deal_cache[d].ic_votes]_vars

\* C16 witness: two votes have been cast on the deal and one user has an
\* entry, the vote cast last: the second vote replaced the first
C16_Witness ==
    \E d \in CachedDeals :
        /\ votesCast = 2
        /\ vote_message.deal_id = d
        /\ Voters(deal_cache[d].ic_votes) = {vote_message.user_id}
        /\ deal_cache[d].ic_votes[vote_message.user_id] = vote_message.vote

\* C17: the users with an entry in a deal's ic_votes are required voters
\* of the deal's workspace
C17_VotersAreRequired ==
    \A d \in CachedDeals :
        deal_cache[d].workspace_id \in DOMAIN workspace_cache =>
            Voters(deal_cache[d].ic_votes) \subseteq
                get_required_voters(workspace_cache[deal_cache[d].workspace_id])

\* C18: a deal leaves ic_review only by finalization on a vote_cast that
\* completes the quorum of the deal's workspace, to negotiation or
\* closed_lost.  Stated for deals of existing workspaces.
C18_OnlyFinalizationLeavesReview ==
    [][\A d \in CachedDeals :
          (/\ deal_cache[d].workspace_id \in DOMAIN workspace_cache
           /\ deal_cache[d].status = "ic_review"
           /\ deal_cache'[d].status # "ic_review") =>
              /\ Finalizes(d)
              /\ deal_cache'[d].status \in {"negotiation", "closed_lost"}
              /\ vote_message'.deal_id = d
              /\ AllRequiredVoted(deal_cache'[d])]_vars

\* C19: the activity log of a deal is append-only, a created deal has one
\* entry, every vote_cast on the deal appends exactly one entry, and there
\* is at most one ic_decision entry per finalization
C19_MutationLogged ==
    [][/\ \A d \in CachedDeals :
             /\ Len(deal_cache'[d].activity_log)
                    >= Len(deal_cache[d].activity_log)
             /\ SubSeq(deal_cache'[d].activity_log, 1,
                       Len(deal_cache[d].activity_log))
                    = deal_cache[d].activity_log
             /\ deal_cache'[d].ic_votes # deal_cache[d].ic_votes =>
                    Len(deal_cache'[d].activity_log)
                        = Len(deal_cache[d].activity_log) + 1
             /\ Cardinality(EntriesOf(deal_cache'[d], "ic_decision"))
                    <= deal_cache'[d].finals
       /\ \A d \in DOMAIN deal_cache' \ CachedDeals :
             Len(deal_cache'[d].activity_log) = 1]_vars

\* C20: a vote_cast naming a deal the hub does not know is answered with an
\* error reply to the sender, and changes neither stored state nor
\* registry and starts no broadcast
C20_UnknownDealReported ==
    [][(VoteCastStep /\ vote_message'.deal_id \notin CachedDeals) =>
          /\ pc'[vote_message'.connection] = "error_send"
          /\ UNCHANGED <<workspace_cache, deal_cache, registry, bcast>>]_vars

\* C21: a token generate_share_token returned verifies to the deal id and
\* the permissions it was generated for at any time before its expiry, 7
\* days after it was generated; after the expiry verification fails with
\* "Share link expired"; a token that generate_share_token did not return
\* fails with the different detail "Invalid share token".
C21_TokenRoundTrip ==
    [][(verify_result' # verify_result \/ presented' # presented) =>
          LET t == verify_result'.at
              r == verify_result'.outcome
          IN  /\ (presented' = share_token.token
                    /\ t < share_token.issued_at + 7) =>
                     /\ ~r.raised
                     /\ r.payload.deal_id = share_token.deal_id
                     /\ r.payload.permissions = share_token.permissions
              /\ (presented' = share_token.token
                    /\ t > share_token.issued_at + 7) =>
                     /\ r.raised
                     /\ r.detail = "Share link expired"
              /\ presented' # share_token.token =>
                     /\ r.raised
                     /\ r.detail = "Invalid share token"]_vars

\* an issued token has been verified before its expiry, and later a token
\* with a replaced body has been rejected after it
C21_Witness ==
    /\ presented \notin {NoToken, Malformed}
    /\ presented # share_token.token
    /\ presented.signature = share_token.token.signature
    /\ verify_result.at > share_token.issued_at + 7
    /\ verify_result.outcome.raised

\* vocabulary of the claims about vote summaries
CountOf(votes, v) == Cardinality({u \in DOMAIN votes : votes[u] = v})

\* votes dictionaries of one and of two voters: their averages are the
\* multiples of 1/2 from -2 to 2
SmallBallots ==
    {(1 :> v) : v \in VoteType}
    \cup {(1 :> v) @@ (2 :> w) : v, w \in VoteType}

RecommendationRank(r) ==
    CASE r = "do_not_proceed" -> 0
      [] r = "further_review" -> 1
      [] r = "proceed" -> 2
      [] r = "strong_proceed" -> 3

\* C22: for every non-empty votes dictionary the summary has weighted_score
\* = 2 * strong_yes + yes - no - 2 * strong_no (neutral and abstain weigh
\* 0), average_score = weighted_score / number of votes, recommendation
\* strong_proceed iff average >= 1.5, proceed iff 0.5 <= average < 1.5,
\* further_review iff -0.5 <= average < 0.5, do_not_proceed otherwise; a
\* dictionary with a larger average never gets a lower recommendation;
\* {strong_yes, yes, no} gives score 2 and proceed.
C22_SummaryBuckets ==
    (ballot_summary # NoSummary /\ DOMAIN ballot # {}) =>
        LET s == ballot_summary
            n == Cardinality(DOMAIN ballot)
            num == s.average_score.num
            den == s.average_score.den
        IN  /\ s.total_votes = n
            /\ s.weighted_score =
                   2 * CountOf(ballot, "strong_yes") + CountOf(ballot, "yes")
                   - CountOf(ballot, "no") - 2 * CountOf(ballot, "strong_no")
            /\ den > 0
            /\ num * n = s.weighted_score * den
            /\ s.recommendation = "strong_proceed" <=> 2 * num >= 3 * den
            /\ s.recommendation = "proceed" <=>
                   (2 * num >= den /\ 2 * num < 3 * den)
            /\ s.recommendation = "further_review" <=>
                   (2 * num >= -den /\ 2 * num < den)
            /\ s.recommendation = "do_not_proceed" <=> 2 * num < -den
            /\ \A b \in SmallBallots :
                  LET r == calculate_vote_summary(b)
                  IN  /\ r.average_score.num * den <= num * r.average_score.den
                          => RecommendationRank(r.recommendation)
                                 <= RecommendationRank(s.recommendation)
                      /\ r.average_score.num * den >= num * r.average_score.den
                          => RecommendationRank(r.recommendation)
                                 >= RecommendationRank(s.recommendation)
            /\ (n = 3 /\ CountOf(ballot, "strong_yes") = 1
                      /\ CountOf(ballot, "yes") = 1
                      /\ CountOf(ballot, "no") = 1) =>
                   /\ s.weighted_score = 2
                   /\ s.recommendation = "proceed"

\* the votes {strong_yes, yes, no} have been summarised
C22_Witness ==
    /\ ballot_summary # NoSummary
    /\ Cardinality(DOMAIN ballot) = 3
    /\ CountOf(ballot, "strong_yes") = 1
    /\ CountOf(ballot, "yes") = 1
    /\ CountOf(ballot, "no") = 1
    /\ ballot_summary.recommendation = "proceed"

\* the largest number of votes any one vote type has
TopCount(votes) ==
    CHOOSE m \in 0..Cardinality(DOMAIN votes) :
        /\ \E v \in VoteType : CountOf(votes, v) = m
        /\ \A v \in VoteType : CountOf(votes, v) <= m

\* votes dictionaries of five voters of whom the first m vote yes and the
\* others each cast a different vote: their ratios are 1/5, 2/5, ..., 1
OtherVotes == <<"no", "neutral", "abstain", "strong_no", "strong_yes">>
MixedBallots ==
    {[u \in 1..5 |-> IF u <= m THEN "yes" ELSE OtherVotes[u - m]] : m \in 0..5}

ConsensusRank(level) ==
    CASE level = "no_consensus" -> 0
      [] level = "weak_consensus" -> 1
      [] level = "moderate_consensus" -> 2
      [] level = "strong_consensus" -> 3

\* C23: for every non-empty votes dictionary, with r = the largest count of
\* one vote type / the number of votes, consensus_level is strong_consensus
\* iff r >= 0.8, moderate_consensus iff 0.6 <= r < 0.8, weak_consensus iff
\* 0.4 <= r < 0.6, no_consensus otherwise; a dictionary with a larger r
\* never gets a lower level; three votes of three types give no_consensus.
C23_ConsensusBuckets ==
    (ballot_summary # NoSummary /\ DOMAIN ballot # {}) =>
        LET level == ballot_summary.consensus_level
            n == Cardinality(DOMAIN ballot)
            top == TopCount(ballot)
        IN  /\ level = "strong_consensus" <=> 5 * top >= 4 * n
            /\ level = "moderate_consensus" <=>
                   (5 * top >= 3 * n /\ 5 * top < 4 * n)
            /\ level = "weak_consensus" <=>
                   (5 * top >= 2 * n /\ 5 * top < 3 * n)
            /\ level = "no_consensus" <=> 5 * top < 2 * n
            /\ \A b \in MixedBallots :
                  LET other == calculate_vote_summary(b).consensus_level
                      m == Cardinality(DOMAIN b)
                  IN  /\ TopCount(b) * n <= top * m
                          => ConsensusRank(other) <= ConsensusRank(level)
                      /\ TopCount(b) * n >= top * m
                          => ConsensusRank(other) >= ConsensusRank(level)
            /\ (n = 3 /\ top = 1) => level = "no_consensus"

\* five votes of which exactly four agree have been summarised as
\* strong_consensus, at the ratio 0.8
C23_Witness ==
    /\ ballot_summary # NoSummary
    /\ Cardinality(DOMAIN ballot) = 5
    /\ TopCount(ballot) = 4
    /\ ballot_summary.consensus_level = "strong_consensus"

\* the event types C24 lists
OutboundEvents ==
    {"cursor_update", "selection_update", "annotation_created", "vote_update",
     "dd_item_updated", "typing_indicator", "deal_created", "user_joined",
     "user_left", "ic_decision_final"}

\* C24: every event being broadcast to a workspace carries a timestamp and
\* a user_id naming the acting user.
C24_EventsCarryUser ==
    \A t \in Tasks :
        (bcast[t].status = "sending" /\ bcast[t].type \in OutboundEvents) =>
            /\ {"timestamp", "user_id"} \subseteq MessageKeys(bcast[t].type)
            /\ bcast[t].user # None

\* create_deal runs from its first line to its first suspension or return
CreateDealStep == Cardinality(DOMAIN deal_cache') = Cardinality(DOMAIN deal_cache) + 1

\* the request coroutine of create_deal ends
CreateDealEnds == pc[REST] = "broadcast" /\ pc'[REST] = "idle"

DDUpdateStep == dd_message' # dd_message

\* C26: a dd_item_update that sets the status of an item of a deal's
\* checklist to "completed" sets the item's completed_at and triggers a
\* dd_completed notification; an update to another status triggers no
\* notification.
C26_CompletionNotifies ==
    [][(DDUpdateStep /\ dd_message'.item_id[1] \in dd_checklist) =>
          IF dd_message'.status = "completed"
          THEN /\ dd_message'.item_id \in DOMAIN dd_items'
               /\ dd_items'[dd_message'.item_id].completed_at # None
               /\ \/ notif' # notif
                  \/ notification_queue' # notification_queue
          ELSE /\ notif' = notif
               /\ notification_queue' = notification_queue]_vars

\* C27: every connection stored in the user-to-connection map is in some
\* workspace's connection set, and every connection in a workspace's set is
\* the value of exactly one entry of the user-to-connection map.  Stated
\* under the design's assumption of one connection per (user, workspace).
C27_RegistryConsistent ==
    OnePerPair =>
        /\ \A u \in Users :
              user_connections[u] # None =>
                  user_connections[u] \in RegisteredConns
        /\ \A c \in RegisteredConns :
              Cardinality({u \in Users : user_connections[u] = c}) = 1

\* C28: a vote_cast arriving on a connection of workspace W records a vote
\* only on a deal of W (stated for workspaces that have been created), and
\* a deal is finalized only when every member of the deal's own workspace
\* has voted on it.
C28_VotingIsolated ==
    [][\A d \in CachedDeals :
          /\ (VoteCastStep /\ vote_message'.deal_id = d
                /\ {deal_cache[d].workspace_id, cws[vote_message'.connection]}
                       \subseteq DOMAIN workspace_cache
                /\ deal_cache'[d].ic_votes # deal_cache[d].ic_votes) =>
                 deal_cache[d].workspace_id = cws[vote_message'.connection]
          /\ Finalizes(d) =>
                 /\ deal_cache[d].workspace_id \in DOMAIN workspace_cache
                 /\ \A u \in workspace_cache[deal_cache[d].workspace_id].members :
                       deal_cache'[d].ic_votes[u] # None]_vars

\* the message loop of c ends on an exception a handler raised while the
\* client was still connected
HandlerFails(c) == pc[c] = "recv" /\ alive[c] /\ pc'[c] = "crashed"

\* C29: when a handler fails with an error other than a client disconnect,
\* the sender's connection is registered neither in a workspace's
\* connection set nor in the user-to-connection map once its message loop
\* has ended.
C29_FailedHandlerUnregisters ==
    [][\A c \in Conns :
          HandlerFails(c) =>
              /\ c \notin UNION {active_connections'[w] : w \in Workspaces}
              /\ \A u \in Users : user_connections'[u] # c]_vars

\* the connections a broadcast has delivered its event to so far
Delivered(b) == (b.attempted \ {b.cur}) \ b.failed

\* the send_json of coroutine t's broadcast to x returns in this step
DeliveredNow(t, x) ==
    /\ bcast[t].status = "sending"
    /\ bcast[t].cur = x
    /\ alive[x]
    /\ bcast'[t] # bcast[t]

\* the vote_cast dispatched last, on connection t, was the second of two
\* votes by different users and completed the quorum of deal d, and
\* another handler s cast the first
CompletedQuorum(t, s, d) ==
    /\ votesCast = 2
    /\ vote_message.connection = t
    /\ vote_message.deal_id = d
    /\ s # t
    /\ {cuser[s], cuser[t]} \subseteq Users
    /\ cuser[s] # cuser[t]
    /\ deal_cache[d].ic_votes[cuser[s]] # None
    /\ deal_cache[d].workspace_id \in DOMAIN workspace_cache
    /\ cuser[t] \in workspace_cache[deal_cache[d].workspace_id].members
    /\ AllRequiredVoted(deal_cache[d])

\* C30: no connection receives the vote_update of the vote that completed
\* quorum after it has received an ic_decision_final for the deal, and the
\* decision taken when the status is set is the one the summary of the
\* votes recorded at that moment recommends.
C30_VoteUpdateBeforeFinal ==
    [][\A d \in CachedDeals :
          /\ \A t, s, x \in Conns :
                (/\ CompletedQuorum(t, s, d)
                 /\ bcast[t].type = "vote_update"
                 /\ bcast[t].deal = d
                 /\ DeliveredNow(t, x)) =>
                    ~ /\ bcast[s].type = "ic_decision_final"
                      /\ bcast[s].deal = d
                      /\ x \in Delivered(bcast[s])
          /\ Finalizes(d) =>
                (deal_cache'[d].status = "negotiation" <=>
                    calculate_vote_summary(deal_cache'[d].ic_votes).recommendation
                        \in {"strong_proceed", "proceed"})]_vars

====
